---------------------------- MODULE Spec2Model ----------------------------
(***************************************************************************)
(* Model of src/file_organizer.py: SmartFileOrganizer (category resolver,  *)
(* content hasher, duplicate index, two-pass reorganizer, space optimizer) *)
(* and the directory prompt of main().                                     *)
(*                                                                         *)
(* The directory traversal is pathlib's Path.glob('**/*') as CPython 3.11  *)
(* implements it: a lazy generator that lists a directory when it reaches  *)
(* it, yields the listed entries one by one, and only then lists the       *)
(* directory a second time to find the sub-directories to descend into.    *)
(* The order in which a directory is listed is the operating system's and  *)
(* is modelled as an arbitrary choice.                                     *)
(***************************************************************************)
EXTENDS Integers, Sequences, FiniteSets, TLC

(* ------------------------------ bounds -------------------------------- *)
\* files in the initial tree
MaxFiles == 3
\* seconds the wall clock may advance during the runs
MaxClock == 1
\* invocations of organize_files on one SmartFileOrganizer
MaxRuns == 2
\* per-file operating system failures injected over the runs
MaxFaults == 1
\* calls of get_file_category for one file
MaxCalls == 2
\* files in the initial tree when one organizer is used for several calls
MaxReuseFiles == 2

(* ----------------------- static tables (__init__) --------------------- *)
KnownFormats ==
  << <<"JPG", <<".jpg", ".jpeg", ".jpe", ".jif", ".jfif">>>>,
     <<"PNG", <<".png">>>>,
     <<"GIF", <<".gif">>>>,
     <<"RAW", <<".raw", ".arw", ".cr2", ".nrw", ".k25", ".dng">>>>,
     <<"PSD", <<".psd", ".psb">>>>,
     <<"AI", <<".ai">>>>,
     <<"TIFF", <<".tiff", ".tif">>>>,
     <<"BMP", <<".bmp">>>>,
     <<"HEIC", <<".heic">>>>,
     <<"SVG", <<".svg">>>>,
     <<"WEBP", <<".webp">>>>,
     <<"ICO", <<".ico">>>>,
     <<"MP4", <<".mp4", ".m4v", ".m4p">>>>,
     <<"AVI", <<".avi">>>>,
     <<"MOV", <<".mov", ".qt">>>>,
     <<"WMV", <<".wmv">>>>,
     <<"FLV", <<".flv", ".f4v", ".f4p", ".f4a", ".f4b">>>>,
     <<"MKV", <<".mkv">>>>,
     <<"WEBM", <<".webm">>>>,
     <<"3GP", <<".3gp", ".3g2">>>>,
     <<"MPEG", <<".mpeg", ".mpg", ".mpe", ".mpv">>>>,
     <<"MP3", <<".mp3">>>>,
     <<"WAV", <<".wav">>>>,
     <<"FLAC", <<".flac">>>>,
     <<"M4A", <<".m4a">>>>,
     <<"AAC", <<".aac">>>>,
     <<"OGG", <<".ogg", ".oga">>>>,
     <<"WMA", <<".wma">>>>,
     <<"MIDI", <<".midi", ".mid">>>>,
     <<"AMR", <<".amr">>>>,
     <<"PDF", <<".pdf">>>>,
     <<"DOC", <<".doc", ".docx", ".docm">>>>,
     <<"XLS", <<".xls", ".xlsx", ".xlsm">>>>,
     <<"PPT", <<".ppt", ".pptx", ".pptm">>>>,
     <<"TXT", <<".txt", ".text", ".md", ".markdown">>>>,
     <<"RTF", <<".rtf">>>>,
     <<"ODT", <<".odt">>>>,
     <<"CSV", <<".csv">>>>,
     <<"EPUB", <<".epub">>>>,
     <<"MOBI", <<".mobi">>>>,
     <<"PY", <<".py", ".pyw", ".pyc", ".pyo", ".pyd">>>>,
     <<"JAVA", <<".java", ".class", ".jar">>>>,
     <<"JS", <<".js", ".jsx", ".mjs">>>>,
     <<"HTML", <<".html", ".htm", ".xhtml">>>>,
     <<"CSS", <<".css", ".scss", ".sass">>>>,
     <<"PHP", <<".php", ".phtml", ".php3", ".php4", ".php5">>>>,
     <<"CPP", <<".cpp", ".cc", ".cxx", ".c++", ".hpp">>>>,
     <<"C", <<".c", ".h">>>>,
     <<"GO", <<".go">>>>,
     <<"TS", <<".ts", ".tsx">>>>,
     <<"SQL", <<".sql">>>>,
     <<"R", <<".r", ".R">>>>,
     <<"CUBE", <<".cube">>>>,
     <<"LUT", <<".lut">>>>,
     <<"3DL", <<".3dl">>>>,
     <<"ICC", <<".icc", ".icm">>>>,
     <<"DCP", <<".dcp">>>>,
     <<"XMP", <<".xmp">>>>,
     <<"PRESET", <<".xmp", ".lrtemplate", ".dng">>>>,
     <<"FIG", <<".fig">>>>,
     <<"XD", <<".xd">>>>,
     <<"ZIP", <<".zip", ".zipx">>>>,
     <<"RAR", <<".rar">>>>,
     <<"7Z", <<".7z">>>>,
     <<"TAR", <<".tar", ".gz", ".bz2", ".xz">>>>,
     <<"ISO", <<".iso">>>>,
     <<"EXE", <<".exe", ".msi", ".msix">>>>,
     <<"APP", <<".app">>>>,
     <<"DMG", <<".dmg">>>>,
     <<"APK", <<".apk", ".aab">>>>,
     <<"IPA", <<".ipa">>>>,
     <<"GIT", <<".git">>>>,
     <<"CONFIG", <<".config", ".conf", ".cfg", ".ini">>>>,
     <<"ENV", <<".env", ".env.local", ".env.development">>>>,
     <<"YAML", <<".yml", ".yaml">>>>,
     <<"JSON", <<".json">>>>,
     <<"XML", <<".xml">>>>,
     <<"LOG", <<".log">>>>,
     <<"TTF", <<".ttf">>>>,
     <<"OTF", <<".otf">>>>,
     <<"WOFF", <<".woff", ".woff2">>>>,
     <<"STL", <<".stl">>>>,
     <<"OBJ", <<".obj">>>>,
     <<"FBX", <<".fbx">>>>,
     <<"BLEND", <<".blend">>>>,
     <<"3DS", <<".3ds">>>>,
     <<"DB", <<".db", ".sqlite", ".sqlite3">>>>,
     <<"MDB", <<".mdb", ".accdb">>>>,
     <<"UNITY", <<".unity", ".prefab", ".asset">>>>,
     <<"UE", <<".uasset", ".umap">>>>,
     <<"VMDK", <<".vmdk">>>>,
     <<"VDI", <<".vdi">>>>,
     <<"OVA", <<".ova">>>>,
     <<"WALLET", <<".wallet">>>>,
     <<"DAT", <<".dat">>>>,
     <<"COP", <<".cop">>>>,
     <<"COF", <<".cof">>>>,
     <<"CR3", <<".cr3">>>>,
     <<"RAF", <<".raf">>>>,
     <<"RW2", <<".rw2">>>>,
     <<"INDD", <<".indd">>>>,
     <<"AEP", <<".aep">>>>,
     <<"PRPROJ", <<".prproj">>>> >>

Range(s) == {s[i] : i \in DOMAIN s}

\* The extensions that appear in known_formats.
KnownExtensions == UNION {Range(KnownFormats[i][2]) : i \in DOMAIN KnownFormats}

\* The loop assigns extension_map[ext] = category entry after entry, so the
\* entry that is kept for an extension is the last one that lists it.
LastListing(e) ==
  CHOOSE i \in DOMAIN KnownFormats :
    /\ e \in Range(KnownFormats[i][2])
    /\ \A j \in DOMAIN KnownFormats : e \in Range(KnownFormats[j][2]) => j <= i

extension_map == [e \in KnownExtensions |-> KnownFormats[LastListing(e)][1]]

\* mime_categories, in the order the dict is iterated.
mime_categories ==
  << <<"image", "Images">>, <<"video", "Videos">>,
     <<"audio", "Audio">>, <<"text", "Documents">> >>

(* --------------------- strings of the modelled inputs ------------------ *)
\* The suffixes of the modelled file names ("" is a name without suffix).
Extensions == {".jpg", ".JPG", ".Dng", ".xmp", ".md", ".R", ".xyz", ".Xyz", ""}

\* str.lower() on the modelled suffixes.
Lower(e) ==
  CASE e = ".JPG" -> ".jpg"
    [] e = ".Dng" -> ".dng"
    [] e = ".R"   -> ".r"
    [] e = ".Xyz" -> ".xyz"
    [] OTHER      -> e

\* extension[1:].upper() on the modelled suffixes.
UpperNoDot(e) ==
  CASE e = ".jpg" -> "JPG"
    [] e = ".dng" -> "DNG"
    [] e = ".xmp" -> "XMP"
    [] e = ".md"  -> "MD"
    [] e = ".r"   -> "R"
    [] e = ".xyz" -> "XYZ"
    [] OTHER      -> e

\* What mimetypes.guess_type(...)[0] may answer for a file name: None, or a
\* MIME type string.
MimeTypes ==
  {"None", "image/png", "video/mp4", "audio/mpeg", "text/plain",
   "application/x-texinfo", "application/vnd.oasis.opendocument.text"}

\* The keys of mime_categories that occur as substrings of a MIME type
\* (the test is `mime_prefix in mime_type`).
MimeContains(m) ==
  CASE m = "image/png"  -> {"image"}
    [] m = "video/mp4"  -> {"video"}
    [] m = "audio/mpeg" -> {"audio"}
    [] m = "text/plain" -> {"text"}
    [] m = "application/vnd.oasis.opendocument.text" -> {"text"}
    [] OTHER -> {}

\* What reading the first 512 bytes gives: a prefix with a NUL byte, a prefix
\* that decodes as UTF-8, one that does not, or an error on open/read.
Headers == {"nul", "utf8", "bin", "err"}

(* ------------------ get_file_category (Category Resolver) -------------- *)
\* The for loop over mime_categories: the first key contained in the type.
MimeCategory(m) ==
  LET hits == {i \in DOMAIN mime_categories : mime_categories[i][1] \in MimeContains(m)}
  IN  IF m = "None" \/ hits = {} THEN "None"
      ELSE mime_categories[CHOOSE i \in hits : \A j \in hits : i <= j][2]

\* A content sniff that decodes before it looks for a NUL byte and that lets
\* a failure of open/read through to the caller (no label comes back).
SniffCategoryStrict(header) ==
  CASE header = "nul"  -> "Text"
    [] header = "utf8" -> "Text"
    [] header = "bin"  -> "Binary"
    [] OTHER           -> ""

\* The content sniff of the no-extension branch.
SniffCategory(header) ==
  CASE header = "nul"  -> "Binaries"
    [] header = "utf8" -> "Text"
    [] header = "bin"  -> "Binary"
    [] OTHER           -> "No_Extension"

\* A resolver that asks the MIME guess and the content before the table.
GetFileCategoryMimeFirst(ext, mime, header) ==
  IF MimeCategory(mime) # "None" THEN MimeCategory(mime)
  ELSE IF header = "nul" THEN "Binaries"
  ELSE IF Lower(ext) \in DOMAIN extension_map THEN extension_map[Lower(ext)]
  ELSE IF ext = "" THEN SniffCategory(header)
  ELSE UpperNoDot(Lower(ext))

\* get_file_category: ext is file_path.suffix, mime the MIME guess for the
\* name, header the outcome of reading the first 512 bytes.
GetFileCategory(ext, mime, header) ==
  LET extension == Lower(ext)
  IN  IF extension \in DOMAIN extension_map THEN extension_map[extension]
      ELSE IF extension = ""
        THEN IF MimeCategory(mime) # "None" THEN MimeCategory(mime)
             ELSE SniffCategory(header)
        ELSE UpperNoDot(extension)

(* ------------------------- the modelled file tree ---------------------- *)
\* A file name is stem + "_" + token ... + suffix: tok holds the time tokens
\* that collision handling has inserted between stem and suffix.
MkName(stem, ext) == [stem |-> stem, tok |-> <<>>, ext |-> ext]

\* A path below the root: the directory as the sequence of its components
\* (<<>> is the root itself) and the file name.
MkPath(dir, name) == [dir |-> dir, name |-> name]

NoPath == MkPath(<<"?">>, MkName("?", "?"))

\* The guess of mimetypes.guess_type for a file name (a function of the name).
MimeOf(name) ==
  CASE name.stem = "notes" /\ name.ext = ""   -> "None"
    [] name.stem = "picture" /\ name.ext = "" -> "image/png"
    [] OTHER -> "None"

\* The first 512 bytes of each modelled content.
HeaderOf(data) ==
  CASE data = "X" -> "bin"
    [] data = "Z" -> "nul"
    [] OTHER      -> "utf8"

\* Size in bytes of each modelled content.
SizeOf(data) ==
  CASE data = "X" -> 7
    [] data = "Z" -> 3
    [] data = "I" -> 10000000
    [] data = "U" -> 20000000
    [] data = "V" -> 20000000
    [] data = "W" -> 30000000
    [] OTHER      -> 2

\* st_mtime of the modelled files, and datetime.fromtimestamp on it.
Mtimes == {1700000000, 1718000000}

YearOf(ts) == IF ts = 1700000000 THEN "2023" ELSE "2024"

MonthOf(ts) == IF ts = 1700000000 THEN "November" ELSE "June"

\* get_date_category: "{year}/{month}", kept as the two path components.
GetDateCategory(ts) == <<YearOf(ts), MonthOf(ts)>>

\* A regular file: its bytes (data, and for an archive the member it holds),
\* its size, its modification time, whether reading it can fail, and, to tell
\* files apart in the properties, the path it had in the initial tree.
MkFile(data, size, mtime, flaky, path) ==
  [data |-> data, holds |-> <<>>, size |-> size, mtime |-> mtime, flaky |-> flaky,
   origin |-> path]

\* The files an initial tree is drawn from.
Candidates ==
  LET photo == MkPath(<<>>, MkName("photo", ".jpg"))
      copy  == MkPath(<<>>, MkName("copy", ".JPG"))
      sub   == MkPath(<<"sub">>, MkName("photo", ".jpg"))
      old   == MkPath(<<"JPG">>, MkName("photo", ".jpg"))
      xyz   == MkPath(<<>>, MkName("data", ".xyz"))
  IN  { [path |-> photo, file |-> MkFile("X", SizeOf("X"), 1700000000, FALSE, photo)],
        [path |-> copy,  file |-> MkFile("X", SizeOf("X"), 1718000000, FALSE, copy)],
        [path |-> sub,   file |-> MkFile("X", SizeOf("X"), 1700000000, TRUE, sub)],
        [path |-> old,   file |-> MkFile("Z", SizeOf("Z"), 1700000000, FALSE, old)],
        [path |-> xyz,   file |-> MkFile("D", SizeOf("D"), 1718000000, FALSE, xyz)] }

\* A zip archive: the member it holds (name and bytes of the archived file; an
\* archive without member holds nothing) and its own size.
MkArchive(member, size, path) ==
  [data |-> "zip", holds |-> member, size |-> size, mtime |-> 1718000000, flaky |-> FALSE,
   origin |-> path]

Member(name, f) == <<[name |-> name, data |-> f.data, holds |-> f.holds]>>

\* The files a tree given to optimize_storage is drawn from: large files that
\* share a stem, a file of exactly 10 MB, a small file, and an archive that an
\* earlier run left in Compressed.
OptCandidates ==
  LET mp4  == MkPath(<<"MP4">>, MkName("clip", ".mp4"))
      mov  == MkPath(<<"MOV">>, MkName("clip", ".mov"))
      sub  == MkPath(<<"sub">>, MkName("clip", ".mp4"))
      iso  == MkPath(<<"ISO">>, MkName("disk", ".iso"))
      md   == MkPath(<<"TXT">>, MkName("notes", ".md"))
      zip  == MkPath(<<"Compressed">>, MkName("clip", ".zip"))
      avi  == MkFile("O", 40000000, 1700000000, FALSE, NoPath)
  IN  { [path |-> mp4, file |-> MkFile("V", SizeOf("V"), 1700000000, FALSE, mp4)],
        [path |-> mov, file |-> MkFile("W", SizeOf("W"), 1700000000, FALSE, mov)],
        [path |-> sub, file |-> MkFile("U", SizeOf("U"), 1718000000, FALSE, sub)],
        [path |-> iso, file |-> MkFile("I", SizeOf("I"), 1718000000, FALSE, iso)],
        [path |-> md,  file |-> MkFile("T", SizeOf("T"), 1718000000, FALSE, md)],
        [path |-> zip, file |-> MkArchive(Member(MkName("clip", ".avi"), avi), 12000000, zip)] }

OptTrees == {S \in SUBSET OptCandidates : Cardinality(S) <= MaxFiles}

\* The trees of at most MaxFiles files.
Trees == {S \in SUBSET Candidates : Cardinality(S) <= MaxFiles}

TreeFiles(S) == [p \in {c.path : c \in S} |-> (CHOOSE c \in S : c.path = p).file]

\* Every prefix of a directory path, the root (<<>>) included.
Prefixes(dir) == {SubSeq(dir, 1, n) : n \in 0..Len(dir)}

\* The directories of a tree: the root and those on the way to its files.
TreeDirs(S) == {<<>>} \cup UNION {Prefixes(c.path.dir) : c \in S}

(* -------------------------------- state -------------------------------- *)
VARIABLES
  pc,                \* where the program is
  console,           \* the last line main() printed
  fs,                \* the regular files of the tree: path -> file
  dirs,              \* the directories of the tree (<<>> is the root)
  duplicate_hashes,  \* self.duplicate_hashes: digest -> list of paths
  stats,             \* the stats dict of the running organize_files call
  opts,              \* the arguments by_date and remove_duplicates
  glob,              \* the state of the running glob('**/*') generator
  now,               \* int(time.time()), in seconds since the program started
  faults,            \* operating system failures still to be injected
  runs,              \* organize_files calls started on this organizer
  start,             \* the files of the tree when the running call started
  last,              \* what the loop body did with the last yielded path
  large_files,       \* optimize_storage: the large files still to handle
  opt_stats,         \* optimize_storage: its stats dict
  cat_in,            \* category check: arguments of get_file_category
  cat_out            \* category check: the labels returned for them

vars ==
  << pc, console, fs, dirs, duplicate_hashes, stats, opts, glob, now, faults,
     runs, start, last, large_files, opt_stats, cat_in, cat_out >>

\* What a loop body did: kind says what happened to the file at `path` (whose
\* initial path was `origin`); for a move, `wanted` is dest_folder/name, `dest`
\* the path moved to and `clobbered` whether another file was in place there.
NoEvent ==
  [kind |-> "none", path |-> NoPath, origin |-> NoPath, dest |-> NoPath,
   wanted |-> NoPath, clobbered |-> FALSE, cat |-> <<>>]

ZeroStats ==
  [moved |-> 0, duplicates |-> 0, space_saved |-> 0, errors |-> 0, years_processed |-> {}]

EmptyFn == [x \in {} |-> <<>>]

IdleGlob == [stack |-> <<>>, entries |-> {}]

(* ------------------------- glob('**/*') generator ---------------------- *)
\* The files a listing of directory d shows (the `*` selector's scandir; the
\* directories it shows too are skipped by the is_file() test of the loops).
FilesIn(d, files) == {p \in DOMAIN files : p.dir = d}

\* The sub-directories a listing of directory d shows.
SubDirs(d, ds) == {e \in ds : Len(e) = Len(d) + 1 /\ SubSeq(e, 1, Len(d)) = d}

\* The generator reaches directory d: d is yielded as a starting point and the
\* `*` selector lists it at once; the listing for sub-directories comes later.
GlobEnter(g, d, files) ==
  [stack   |-> Append(g.stack, [dir |-> d, scanned |-> FALSE, subs |-> {}]),
   entries |-> FilesIn(d, files)]

GlobExhausted(g) == g.stack = <<>> /\ g.entries = {}

\* The generator run up to its next yield (or its end): while the listing of
\* the current directory is used up it lists that directory again for its
\* sub-directories, descends into one of them, or returns to the parent.
\* The result is the set of states it can stop in, one per listing order.
RECURSIVE GlobSettle(_, _, _)
GlobSettle(g, files, ds) ==
  IF g.entries # {} \/ g.stack = <<>> THEN {g}
  ELSE LET n   == Len(g.stack)
           top == g.stack[n]
       IN  IF ~top.scanned
             THEN GlobSettle([g EXCEPT !.stack[n] =
                                [top EXCEPT !.scanned = TRUE, !.subs = SubDirs(top.dir, ds)]],
                             files, ds)
           ELSE IF top.subs = {}
             THEN GlobSettle([g EXCEPT !.stack = SubSeq(g.stack, 1, n - 1)], files, ds)
           ELSE UNION { GlobSettle(GlobEnter([g EXCEPT !.stack[n].subs = @ \ {d}], d, files),
                                   files, ds) : d \in top.subs }

\* A new traversal of the root, run up to its first yield.
GlobStart(files, ds) == GlobSettle(GlobEnter(IdleGlob, <<>>, files), files, ds)

\* The traversal after yielding p, run up to the next yield.
GlobNext(g, p, files, ds) == GlobSettle([g EXCEPT !.entries = @ \ {p}], files, ds)

(* --------------------------------- main -------------------------------- *)
NotFoundMessage == "Directory not found! Please try again."

\* A prompt that takes any answer.
PromptAccept(exists) == "ready"

\* The while loop of main(): an existing path ends it, any other is asked for
\* again.
PromptNext(exists) == IF exists THEN "ready" ELSE "prompt"

\* main(): one answer to "Enter directory path to organize: ". In "ready" the
\* preferences are read and SmartFileOrganizer(dir_path) is constructed.
EnterPath ==
  /\ pc = "prompt"
  /\ \E exists \in BOOLEAN :
       /\ pc' = PromptNext(exists)
       /\ console' = IF exists THEN "Starting smart organization..." ELSE NotFoundMessage
  /\ UNCHANGED << fs, dirs, duplicate_hashes, stats, opts, glob, now, faults,
                  runs, start, last, large_files, opt_stats, cat_in, cat_out >>

(* ------------------------- calculate_file_hash ------------------------- *)
None == <<"None">>

\* The MD5 digest of a file's bytes: equal for equal bytes, and (no collision)
\* different for different bytes.
Md5(f) == <<"md5", f.data, f.holds>>

\* calculate_file_hash: the digest, or None when open/read raised.
CalculateFileHash(f, readable) == IF readable THEN Md5(f) ELSE None

\* Whether open/read of a file may succeed, and may fail.
ReadOutcomes(f) == IF f.flaky THEN {TRUE, FALSE} ELSE {TRUE}

\* self.duplicate_hashes[h] on the defaultdict: a missing key reads as []
\* (and the read enters the key with that empty list, see Store in LoopBody;
\* the read is not made when remove_duplicates is false).
Lookup(index, h) == IF h \in DOMAIN index THEN index[h] ELSE <<>>

Store(index, h, list) == [k \in DOMAIN index \cup {h} |-> IF k = h THEN list ELSE index[k]]

(* ------------------------ organize_files: first pass ------------------- *)
\* Entry of organize_files: a fresh stats dict and the first traversal;
\* self.duplicate_hashes is the attribute __init__ created, used as it is.
OrganizeFiles(by_date, remove_duplicates) ==
  /\ opts' = [by_date |-> by_date, remove_duplicates |-> remove_duplicates]
  /\ pc' = "pass1"
  /\ stats' = ZeroStats
  /\ glob' \in GlobStart(fs, dirs)
  /\ runs' = runs + 1
  /\ start' = fs
  /\ last' = NoEvent
  /\ UNCHANGED << fs, dirs, duplicate_hashes, now, faults,
                  large_files, opt_stats, cat_in, cat_out >>

\* main(): organizer.organize_files(by_date, remove_dupes, optimize).
MainOrganize ==
  /\ pc = "ready"
  /\ console' = "Starting smart organization..."
  /\ \E by_date \in BOOLEAN, remove_duplicates \in BOOLEAN :
       OrganizeFiles(by_date, remove_duplicates)

\* A caller of the class calls organize_files once more on the same object.
CallAgain ==
  /\ pc = "returned"
  /\ runs < MaxRuns
  /\ UNCHANGED console
  /\ \E by_date \in BOOLEAN, remove_duplicates \in BOOLEAN :
       OrganizeFiles(by_date, remove_duplicates)

\* A first pass that hashes the file and records nothing.
IndexUntouched(index, h, p) == index

\* The index after `if file_hash: self.duplicate_hashes[file_hash].append(p)`.
IndexAppend(index, h, p) ==
  IF h # None THEN Store(index, h, Append(Lookup(index, h), p)) ELSE index

\* One iteration of the first loop: hash the yielded file and append it.
Pass1Step ==
  /\ pc = "pass1"
  /\ \E p \in glob.entries :
       /\ glob' \in GlobNext(glob, p, fs, dirs)
       /\ IF p \in DOMAIN fs
            THEN \E readable \in ReadOutcomes(fs[p]) :
                   /\ duplicate_hashes' =
                        IndexAppend(duplicate_hashes, CalculateFileHash(fs[p], readable), p)
                   /\ last' = [NoEvent EXCEPT !.kind = IF readable THEN "hashed" ELSE "unread",
                                              !.path = p, !.origin = fs[p].origin]
            ELSE UNCHANGED << duplicate_hashes, last >>
  /\ UNCHANGED << pc, console, fs, dirs, stats, opts, now, faults,
                  runs, start, large_files, opt_stats, cat_in, cat_out >>

\* The first loop ends; the second loop starts a new traversal.
Pass1Done ==
  /\ pc = "pass1"
  /\ GlobExhausted(glob)
  /\ pc' = "pass2"
  /\ glob' \in GlobStart(fs, dirs)
  /\ last' = NoEvent
  /\ UNCHANGED << console, fs, dirs, duplicate_hashes, stats, opts, now, faults,
                  runs, start, large_files, opt_stats, cat_in, cat_out >>

(* ----------------------- organize_files: second pass ------------------- *)
\* The failures the operating system can answer a step of the loop body with.
FaultKinds == {"stat", "mkdir", "size", "unlink", "move"}

\* An except branch that does not count the error.
OnErrorLost(s) == s

\* The except branch: count the error; the loop goes on with the next path.
OnError(s) == [s EXCEPT !.errors = @ + 1]

\* The path the file is moved to: dest_folder/name, or, when that exists,
\* dest_folder/stem_<int(time.time())>suffix.
NewPath(folder, name, files, t) ==
  IF MkPath(folder, name) \in DOMAIN files
    THEN MkPath(folder, [name EXCEPT !.tok = Append(@, t)])
    ELSE MkPath(folder, name)

\* The duplicate test of the loop body.
IsDuplicate(remove_duplicates, group, p) ==
  remove_duplicates /\ Len(group) > 1 /\ p # group[1]

\* shutil.move(src, dst) on regular files: dst is replaced if it exists.
MoveFile(files, src, dst) ==
  [q \in (DOMAIN files \ {src}) \cup {dst} |-> IF q = dst THEN files[src] ELSE files[q]]

Unlink(files, p) == [q \in DOMAIN files \ {p} |-> files[q]]

\* The loop body for the yielded regular file p: header and readable are the
\* outcomes of reading it (category sniff, hash), fault the step the operating
\* system fails ("none": no step), t the clock when time.time() is read.
\* The result gives the new values and whether `fault` was met on the way.
LoopBody(p, header, readable, fault, t) ==
  LET f        == fs[p]
      category == GetFileCategory(p.name.ext, MimeOf(p.name), header)
      folder   == IF opts.by_date THEN <<category>> \o GetDateCategory(f.mtime)
                                  ELSE <<category>>
      s1       == IF opts.by_date
                    THEN [stats EXCEPT !.years_processed = @ \cup {YearOf(f.mtime)}]
                    ELSE stats
      dirs2    == dirs \cup Prefixes(folder)
      h        == CalculateFileHash(f, readable)
      group    == Lookup(duplicate_hashes, h)
      index2   == IF opts.remove_duplicates THEN Store(duplicate_hashes, h, group)
                                               ELSE duplicate_hashes
      s2       == [s1 EXCEPT !.duplicates = @ + 1]
      s3       == [s2 EXCEPT !.space_saved = @ + f.size]
      wanted   == MkPath(folder, p.name)
      dest     == NewPath(folder, p.name, fs, t)
      ev       == [kind |-> "error", path |-> p, origin |-> f.origin, dest |-> NoPath,
                   wanted |-> wanted, clobbered |-> FALSE, cat |-> folder]
      same     == [met |-> TRUE, fs |-> fs, dirs |-> dirs, index |-> duplicate_hashes,
                   stats |-> stats, last |-> ev]
  IN  IF opts.by_date /\ fault = "stat"
        THEN [same EXCEPT !.stats = OnError(stats)]
      ELSE IF fault = "mkdir"
        THEN [same EXCEPT !.stats = OnError(s1)]
      ELSE IF IsDuplicate(opts.remove_duplicates, group, p)
        THEN IF fault = "size"
               THEN [same EXCEPT !.dirs = dirs2, !.index = index2, !.stats = OnError(s2)]
             ELSE IF fault = "unlink"
               THEN [same EXCEPT !.dirs = dirs2, !.index = index2, !.stats = OnError(s3)]
             ELSE [met |-> fault = "none", fs |-> Unlink(fs, p), dirs |-> dirs2,
                   index |-> index2, stats |-> s3,
                   last |-> [ev EXCEPT !.kind = "deleted"]]
      ELSE IF fault = "move"
        THEN [same EXCEPT !.dirs = dirs2, !.index = index2, !.stats = OnError(s1)]
      ELSE [met |-> fault = "none", fs |-> MoveFile(fs, p, dest), dirs |-> dirs2,
            index |-> index2, stats |-> [s1 EXCEPT !.moved = @ + 1],
            last |-> [ev EXCEPT !.kind = "moved", !.dest = dest,
                                !.clobbered = (dest \in DOMAIN fs /\ dest # p)]]

\* One iteration of the second loop.
Pass2Step ==
  /\ pc = "pass2"
  /\ \E p \in glob.entries :
       /\ IF p \in DOMAIN fs
            THEN \E header \in (IF fs[p].flaky THEN {HeaderOf(fs[p].data), "err"}
                                               ELSE {HeaderOf(fs[p].data)}),
                    readable \in ReadOutcomes(fs[p]),
                    fault \in {"none"} \cup (IF faults > 0 THEN FaultKinds ELSE {}),
                    t \in {now, IF now < MaxClock THEN now + 1 ELSE now} :
                   LET r == LoopBody(p, header, readable, fault, t)
                   IN  /\ r.met
                       /\ fs' = r.fs
                       /\ dirs' = r.dirs
                       /\ duplicate_hashes' = r.index
                       /\ stats' = r.stats
                       /\ last' = r.last
                       /\ now' = t
                       /\ faults' = IF fault = "none" THEN faults ELSE faults - 1
            ELSE UNCHANGED << fs, dirs, duplicate_hashes, stats, last, now, faults >>
       /\ glob' \in GlobNext(glob, p, fs', dirs')
  /\ UNCHANGED << pc, console, opts, runs, start, large_files, opt_stats, cat_in, cat_out >>

\* The second loop ends and organize_files returns stats.
Pass2Done ==
  /\ pc = "pass2"
  /\ GlobExhausted(glob)
  /\ pc' = "returned"
  /\ glob' = IdleGlob
  /\ UNCHANGED << console, fs, dirs, duplicate_hashes, stats, opts, now, faults,
                  runs, start, last, large_files, opt_stats, cat_in, cat_out >>

(* ------------------- optimize_storage (Space Optimizer) ---------------- *)
\* Files > 10MB are the ones handled.
LargeFileThreshold == 10000000

\* archive_dir / f"{file_path.stem}.zip".
ArchiveName(p) == MkPath(<<"Compressed">>, [p.name EXCEPT !.ext = ".zip"])

\* The sizes the archive of a file of `size` bytes may come out with: smaller
\* (the bytes compress), equal, or larger (they do not: zip adds its headers).
ArchiveSizes(size) == {size - size \div 4, size, size + 119}

\* The orders in which glob('**/*') can have yielded the files of S: those of
\* the root first, then those of one sub-directory after the other.
RECURSIVE ListOrders(_)
ListOrders(S) ==
  IF S = {} THEN {<<>>}
  ELSE UNION { {<<p>> \o rest : rest \in ListOrders(S \ {p})} : p \in S }

GlobOrders(S) ==
  { s \in ListOrders(S) :
      \A i, j \in DOMAIN s :
        /\ (i < j /\ s[j].dir = <<>>) => s[i].dir = <<>>
        /\ (i < j /\ s[i].dir = s[j].dir) =>
             \A k \in i..j : s[k].dir = s[i].dir }

\* Only an archive that came out smaller replaces the original.
RemoveOriginal(original_size, compressed_size) == compressed_size < original_size

\* The call: the list of large files is built before the loop starts.
OptimizeStorage ==
  /\ pc = "opt_ready"
  /\ pc' = "opt"
  /\ opt_stats' = [compressed |-> 0, space_saved |-> 0]
  /\ large_files' \in GlobOrders({p \in DOMAIN fs : fs[p].size > LargeFileThreshold})
  /\ start' = fs
  /\ last' = NoEvent
  /\ UNCHANGED << console, fs, dirs, duplicate_hashes, stats, opts, glob, now, faults,
                  runs, cat_in, cat_out >>

\* The tree after shutil.make_archive wrote the archive of p at path a with
\* `size` bytes: the zip file is opened for writing first, so an archive written
\* over the file it is made from holds that file emptied.
WriteArchive(files, p, a, size) ==
  LET made == IF a = p
                THEN MkArchive(Member(p.name, MkFile("", 0, files[p].mtime, FALSE, NoPath)),
                               116, files[p].origin)
                ELSE MkArchive(Member(p.name, files[p]), size, a)
  IN  [q \in DOMAIN files \cup {a} |-> IF q = a THEN made ELSE files[q]]

\* One iteration of the loop over large_files.
OptStep ==
  /\ pc = "opt"
  /\ large_files # <<>>
  /\ LET p  == Head(large_files)
         a  == ArchiveName(p)
         ev == [NoEvent EXCEPT !.path = p, !.origin = fs[p].origin, !.dest = a]
     IN  \E size \in ArchiveSizes(fs[p].size),
            fault \in {"none"} \cup (IF faults > 0 THEN {"mkdir", "archive"} ELSE {}) :
           /\ faults' = IF fault = "none" THEN faults ELSE faults - 1
           /\ IF fault = "mkdir"
                THEN /\ last' = [ev EXCEPT !.kind = "failed"]
                     /\ UNCHANGED << fs, dirs, opt_stats >>
              ELSE IF fault = "archive"
                THEN /\ fs' = [q \in DOMAIN fs \cup {a} |->
                                 IF q = a THEN MkArchive(<<>>, 22, a) ELSE fs[q]]
                     /\ dirs' = dirs \cup {<<"Compressed">>}
                     /\ last' = [ev EXCEPT !.kind = "failed"]
                     /\ UNCHANGED opt_stats
              ELSE LET written         == WriteArchive(fs, p, a, size)
                       original_size   == written[p].size
                       compressed_size == written[a].size
                   IN  /\ dirs' = dirs \cup {<<"Compressed">>}
                       /\ IF RemoveOriginal(original_size, compressed_size)
                            THEN /\ fs' = Unlink(written, p)
                                 /\ opt_stats' =
                                      [compressed  |-> opt_stats.compressed + 1,
                                       space_saved |-> opt_stats.space_saved
                                                        + (original_size - compressed_size)]
                                 /\ last' = [ev EXCEPT !.kind = "archived"]
                            ELSE /\ fs' = written
                                 /\ last' = [ev EXCEPT !.kind = "kept"]
                                 /\ UNCHANGED opt_stats
  /\ large_files' = Tail(large_files)
  /\ UNCHANGED << pc, console, duplicate_hashes, stats, opts, glob, now,
                  runs, start, cat_in, cat_out >>

\* The loop ends and optimize_storage returns its stats.
OptDone ==
  /\ pc = "opt"
  /\ large_files = <<>>
  /\ pc' = "opt_returned"
  /\ UNCHANGED << console, fs, dirs, duplicate_hashes, stats, opts, glob, now, faults,
                  runs, start, last, large_files, opt_stats, cat_in, cat_out >>

(* ------------------- get_file_category, called on its own -------------- *)
\* One call of get_file_category for a file with suffix cat_in; mime and
\* header are what the MIME guess and the file's first bytes are at that call.
Categorise ==
  /\ pc = "cat"
  /\ Len(cat_out) < MaxCalls
  /\ \E mime \in MimeTypes, header \in Headers :
       cat_out' = Append(cat_out, [mime |-> mime, header |-> header,
                                   label |-> GetFileCategory(cat_in, mime, header)])
  /\ UNCHANGED << pc, console, fs, dirs, duplicate_hashes, stats, opts, glob, now, faults,
                  runs, start, last, large_files, opt_stats, cat_in >>

(* ----------------------------- specification --------------------------- *)
\* The state at program point `where`, in a tree drawn from `trees`, with n
\* failures still to come from the operating system (and, for the calls of
\* get_file_category on its own, a file suffix drawn from `suffixes`).
StartIn(where, trees, n, suffixes) ==
  /\ pc = where
  /\ console = ""
  /\ \E S \in trees : fs = TreeFiles(S) /\ dirs = TreeDirs(S)
  /\ duplicate_hashes = EmptyFn
  /\ stats = ZeroStats
  /\ opts = [by_date |-> FALSE, remove_duplicates |-> FALSE]
  /\ glob = IdleGlob
  /\ now = 0
  /\ faults = n
  /\ runs = 0
  /\ start = fs
  /\ last = NoEvent
  /\ large_files = <<>>
  /\ opt_stats = [compressed |-> 0, space_saved |-> 0]
  /\ cat_in \in suffixes
  /\ cat_out = <<>>

Init == StartIn("prompt", Trees, MaxFaults, {""})

Next ==
  \/ EnterPath
  \/ MainOrganize
  \/ Pass1Step
  \/ Pass1Done
  \/ Pass2Step
  \/ Pass2Done

\* main(): the prompt, then one call of organize_files.
Spec == Init /\ [][Next]_vars

\* A caller that uses one SmartFileOrganizer for up to MaxRuns calls.
NextReuse == Next \/ CallAgain

\* The reuse is explored from the smaller trees and without injected failures.
InitReuse == StartIn("prompt", {S \in Trees : Cardinality(S) <= MaxReuseFiles}, 0, {""})

SpecReuse == InitReuse /\ [][NextReuse]_vars

\* optimize_storage, called on an organizer constructed for some tree.
InitOpt == StartIn("opt_ready", OptTrees, MaxFaults, {""})

NextOpt == OptimizeStorage \/ OptStep \/ OptDone

SpecOpt == InitOpt /\ [][NextOpt]_vars

\* get_file_category, called up to MaxCalls times for one file suffix.
InitCat == StartIn("cat", {{}}, 0, Extensions)

NextCat == Categorise

SpecCat == InitCat /\ [][NextCat]_vars

(* ============================ properties =============================== *)
\* The paths recorded in the index.
IndexedPaths == UNION {Range(duplicate_hashes[h]) : h \in DOMAIN duplicate_hashes}

\* The groups of the index with more than one member.
DuplicateGroups ==
  {duplicate_hashes[h] : h \in {k \in DOMAIN duplicate_hashes : Len(duplicate_hashes[k]) > 1}}

\* The initial paths of the files that are still in the tree.
Surviving == {fs[q].origin : q \in DOMAIN fs}

RECURSIVE SumOver(_, _)
SumOver(S, w) ==
  IF S = {} THEN 0
  ELSE LET x == CHOOSE y \in S : TRUE IN w[x] + SumOver(S \ {x}, w)

\* The members of the duplicate groups other than each group's first.
NonKeepers == UNION {{g[i] : i \in 2..Len(g)} : g \in DuplicateGroups}

\* C1: with remove_duplicates, when organize_files has returned without a
\* per-file error, of every duplicate group exactly the first-seen member is
\* still in the tree, stats['duplicates'] is the number of the other members
\* and stats['space_saved'] the sum of their sizes.
C1_KeeperSurvives ==
  (pc = "returned" /\ opts.remove_duplicates /\ stats.errors = 0) =>
    /\ \A g \in DuplicateGroups : Range(g) \cap Surviving = {g[1]}
    /\ stats.duplicates = Cardinality(NonKeepers)
    /\ stats.space_saved = SumOver(NonKeepers, [p \in NonKeepers |-> start[p].size])


\* C2: a move never overwrites: the path a file was moved to was not occupied
\* by another file. (Stated for the moves made while the clock could still
\* advance, so that the token was free to differ from every earlier one.)
C2_NoOverwrite ==
  (last.kind = "moved" /\ now < MaxClock /\ stats.errors = 0) => ~last.clobbered

TreeSize(files) == SumOver(DOMAIN files, [p \in DOMAIN files |-> files[p].size])

\* C4: after optimize_storage handled a large file without an exception,
\* either the original is gone and its archive is smaller than it was, or the
\* original is untouched and no archive of it is in Compressed; and when no
\* step failed the tree is not larger on return than it was.
C4_NeverLarger ==
  /\ (last.kind \in {"archived", "kept"} /\ last.path # last.dest) =>
       \/ /\ last.path \notin DOMAIN fs
          /\ fs[last.dest].size < start[last.path].size
       \/ /\ last.path \in DOMAIN fs
          /\ fs[last.path] = start[last.path]
          /\ last.dest \notin DOMAIN fs
  /\ (pc = "opt_returned" /\ faults = MaxFaults) => TreeSize(fs) <= TreeSize(start)

\* C5: when the first pass is over, the index lists files of the tree only,
\* each under the digest of its own content (so equal contents share a group
\* and different contents do not), no path twice, and every file that can
\* always be read is listed.
C5_IndexGroups ==
  pc = "pass2" =>
    /\ \A h \in DOMAIN duplicate_hashes : \A i \in DOMAIN duplicate_hashes[h] :
         /\ duplicate_hashes[h][i] \in DOMAIN start
         /\ Md5(start[duplicate_hashes[h][i]]) = h
         /\ \A j \in DOMAIN duplicate_hashes[h] :
              duplicate_hashes[h][i] = duplicate_hashes[h][j] => i = j
    /\ \A p \in DOMAIN start : ~start[p].flaky => p \in IndexedPaths

\* No two files of the tree have the same content.
NoDuplicateContents(files) ==
  \A p, q \in DOMAIN files : files[p].data = files[q].data => p = q

\* Every file of the tree can always be read.
AllReadable(files) == \A p \in DOMAIN files : ~files[p].flaky

\* C6: a call of organize_files on a tree without duplicate contents (and
\* without unreadable files) deletes no file, also when the organizer has been
\* used before.
C6_FreshIndex ==
  (NoDuplicateContents(start) /\ AllReadable(start)) => last.kind # "deleted"

\* C7: when organize_files has returned without a per-file error,
\* stats['moved'] is the number of initial files that were not removed and
\* stats['duplicates'] the number of those that were.
C7_Counts ==
  (pc = "returned" /\ stats.errors = 0) =>
    /\ stats.duplicates = Cardinality(DOMAIN start \ Surviving)
    /\ stats.moved = Cardinality(DOMAIN start) - stats.duplicates

\* C8: a file that the first pass could not hash (its path is in no group of
\* the index) is never deleted as a duplicate.
C8_UnhashedKept ==
  (last.kind = "deleted" /\ stats.errors = 0) => last.origin \in IndexedPaths

\* C9, as claimed: a path that does not exist makes the run fail.
C9_FailsOnMissing ==
  [][(pc = "prompt" /\ console' = NotFoundMessage) => pc' = "failed"]_vars

\* C9, amended: a path that does not exist is reported and asked for again;
\* as long as main() is at the prompt nothing has been hashed, moved, deleted
\* or created and no stats exist, and organize_files only ever starts after an
\* existing path was entered.
C9_AsksAgain ==
  /\ [](pc = "prompt" =>
          /\ fs = start
          /\ dirs = {<<>>} \cup UNION {Prefixes(p.dir) : p \in DOMAIN start}
          /\ duplicate_hashes = EmptyFn
          /\ stats = ZeroStats
          /\ runs = 0)
  /\ [](pc = "ready" => console # NotFoundMessage)
  /\ [][(pc = "prompt" /\ console' = NotFoundMessage) => pc' = "prompt"]_vars

\* main() has rejected a path and is asking again.
C9_Witness == pc = "prompt" /\ console = NotFoundMessage

\* C10: for a suffix that is, lower-cased, in the table, every call returns a
\* category that known_formats lists the suffix under, and the same one
\* whatever the MIME guess and the content are at the call.
C10_ExtensionWins ==
  Lower(cat_in) \in KnownExtensions =>
    \A i \in DOMAIN cat_out :
      /\ \E k \in DOMAIN KnownFormats :
           /\ KnownFormats[k][1] = cat_out[i].label
           /\ Lower(cat_in) \in Range(KnownFormats[k][2])
      /\ cat_out[i].label = cat_out[1].label

\* Two calls for an upper-case known suffix, with different MIME guesses that
\* name a category and different contents.
C10_Witness ==
  /\ cat_in = ".JPG"
  /\ Len(cat_out) = 2
  /\ cat_out[1].mime = "image/png" /\ cat_out[2].mime = "text/plain"
  /\ cat_out[1].header = "nul" /\ cat_out[2].header = "utf8"
  /\ cat_out[2].label = "JPG"

\* C11: every call of get_file_category returns a non-empty label; for a name
\* without suffix whose MIME guess names no category the label follows the
\* first bytes (a NUL byte: Binaries; else decodable as UTF-8: Text; else
\* Binary; unreadable: No_Extension); for a suffix that is not in the table
\* the label is the suffix without its dot, in upper case.
C11_Fallbacks ==
  \A i \in DOMAIN cat_out :
    LET o == cat_out[i]
    IN  /\ o.label # ""
        /\ (cat_in = "" /\ MimeContains(o.mime) = {}) =>
             /\ o.header = "nul"  => o.label = "Binaries"
             /\ o.header = "utf8" => o.label = "Text"
             /\ o.header = "bin"  => o.label = "Binary"
             /\ o.header = "err"  => o.label = "No_Extension"
        /\ (cat_in # "" /\ Lower(cat_in) \notin KnownExtensions) =>
             /\ cat_in \in {".xyz", ".Xyz"}
             /\ o.label = "XYZ"

\* A name without suffix and without MIME guess was resolved twice, once while
\* its content could not be read and once while it began with a NUL byte.
C11_Witness ==
  /\ cat_in = ""
  /\ Len(cat_out) = 2
  /\ cat_out[1].mime = "None" /\ cat_out[1].header = "err"
  /\ cat_out[1].label = "No_Extension"
  /\ cat_out[2].mime = "None" /\ cat_out[2].header = "nul"
  /\ cat_out[2].label = "Binaries"

\* The files of the tree at the start of the call that the first pass can
\* always read are in the group of their digest.
StartIndexed ==
  \A p \in DOMAIN start :
    ~start[p].flaky =>
      /\ Md5(start[p]) \in DOMAIN duplicate_hashes
      /\ p \in Range(duplicate_hashes[Md5(start[p])])

\* During the first pass the tree is the one the call started on.
TreeUntouchedInPass1 ==
  pc = "pass1" =>
    /\ fs = start
    /\ dirs = {<<>>} \cup UNION {Prefixes(p.dir) : p \in DOMAIN start}

\* C12: organize_files is strictly two-pass: the tree is as at the start
\* while the first pass runs, a step changes files or folders only when the
\* first pass has indexed the files, and the second pass leaves the index
\* exactly as the first pass built it (it only reads it).
C12_ReadOnlyIndex ==
  /\ []TreeUntouchedInPass1
  /\ [][(fs' # fs \/ dirs' # dirs) => (pc = "pass2" /\ StartIndexed)]_vars
  /\ [][pc = "pass2" => duplicate_hashes' = duplicate_hashes]_vars

\* C12, amended: as above, but of the index the second pass leaves every
\* group as it is (no path added, removed or reordered); what it may add is
\* an empty group, for a digest (or the missing digest None) that has none.
C12_GroupsKept ==
  /\ []TreeUntouchedInPass1
  /\ [][(fs' # fs \/ dirs' # dirs) => (pc = "pass2" /\ StartIndexed)]_vars
  /\ [][pc = "pass2" =>
          /\ DOMAIN duplicate_hashes \subseteq DOMAIN duplicate_hashes'
          /\ \A h \in DOMAIN duplicate_hashes' :
               duplicate_hashes'[h] = IF h \in DOMAIN duplicate_hashes
                                        THEN duplicate_hashes[h] ELSE <<>>]_vars

\* The second pass has moved or deleted a file of a tree of several files,
\* and its duplicate test has entered an empty group into the index.
C12_Witness ==
  /\ pc = "pass2"
  /\ Cardinality(DOMAIN start) >= 2
  /\ last.kind \in {"moved", "deleted"}
  /\ \E h \in DOMAIN duplicate_hashes : duplicate_hashes[h] = <<>>
  /\ \E h \in DOMAIN duplicate_hashes : Len(duplicate_hashes[h]) >= 2

\* The contents (bytes) held by the files of a tree.
Contents(files) == {files[p].data : p \in DOMAIN files}

\* C13: organize_files never loses content: when the call has returned and
\* every file that is gone was removed by the duplicate branch, each content
\* of the initial tree is still the content of some file; and with
\* remove_duplicates disabled no file is deleted.
C13_ContentKept ==
  /\ (pc = "returned" /\
      Cardinality(DOMAIN fs) = Cardinality(DOMAIN start) - stats.duplicates)
       => Contents(start) \subseteq Contents(fs)
  /\ ~opts.remove_duplicates => (stats.duplicates = 0 /\ last.kind # "deleted")

\* C14: within one call the second pass handles each file of the initial tree
\* at most once: it never moves a file that already sits at the path it wants
\* for it, and moved + duplicates + errors is at most the number of files the
\* call started with.
C14_HandledOnce ==
  /\ last.kind = "moved" => last.path # last.wanted
  /\ pc \in {"pass2", "returned"} =>
       stats.moved + stats.duplicates + stats.errors <= Cardinality(DOMAIN start)

\* C15: when optimize_storage has returned (no step having failed), every
\* original it deleted is held, name and bytes, by the archive of its stem in
\* Compressed, also when several large files share a stem.
C15_ArchiveHolds ==
  (pc = "opt_returned" /\ faults = MaxFaults) =>
    \A p \in DOMAIN start \ DOMAIN fs :
      /\ ArchiveName(p) \in DOMAIN fs
      /\ fs[ArchiveName(p)].holds = Member(p.name, start[p])

=============================================================================
